---- MODULE Spec2Model ----
(***************************************************************************)
(* Stock dashboard: the prediction hook (useStockPrediction), its cache    *)
(* table stock_predictions, the Predict page's handleAnalyze, the data     *)
(* hook (useStockData) and the edge functions' market overview.            *)
(*                                                                         *)
(* Numbers.  JavaScript doubles are modelled in fixed point: a fraction    *)
(* (a factor, a log return, a volatility, a Math.random() draw) is an      *)
(* integer count of 1/FP, prices are whole dollars, and a predicted price  *)
(* is a count of 1/FP dollars.  Divisions round towards minus infinity.    *)
(***************************************************************************)
EXTENDS Integers, Sequences, FiniteSets, TLC

VARIABLES
    fb,         \* one call of calculateAdvancedPrediction: input, position, output
    version,    \* which copy of useStockPrediction.ts is built: "gemini" or "local"
    store,      \* the rows of table stock_predictions
    today,      \* the UTC date new Date().toISOString().split('T')[0] gives
    run,        \* the calls in flight: handleAnalyze runs and direct hook calls
    prediction, \* Predict page state: the prediction displayed
    loading,    \* useStockPrediction state
    error,      \* useStockPrediction state
    generated,  \* history: per (symbol, date), what generatePrediction last
                \* returned after an upsert the store answered
    calls,      \* how many calls have been started
    shownFrom,  \* history: where the displayed prediction came from
    upserts,    \* history: how many upserts the store has applied
    ft,         \* one call of the data layer: operation, upstream replies, result
    fn,         \* one call of a function of the edge functions or of stockUtils
    newSymbol,  \* Compare page state: the text of the symbol box
    stocks,     \* Compare page state: the comparison list, an entry being its symbol
    isLoading,  \* Compare page state
    adds,       \* Compare page: the addStock calls waiting for their second to pass
    mount,      \* Compare page: where loadDefaults of the mount effect stands
    toast,      \* the last toast shown
    addCalls,   \* how many addStock calls have been started by the user
    searchSymbol,   \* Predict page state: the text of the search box
    currentStock,   \* Predict page state: the quote displayed
    isAnalyzing,    \* Predict page state
    stockLoading,   \* useStockData state of the Predict page: loading
    analysis,       \* Predict page: the handleAnalyze runs in flight
    timers,         \* Predict page: the setTimeout(handleAnalyze, 100) calls pending
    overview,       \* useStockData of another page: its fetchMarketOverview call, its loading
    analyses        \* how many handleAnalyze runs and overview calls have been started

hookVars == <<version, store, today, run, prediction, loading, error, generated, calls,
              shownFrom, upserts>>

cmpVars == <<newSymbol, stocks, isLoading, adds, mount, addCalls>>

uiVars == <<searchSymbol, currentStock, isAnalyzing, stockLoading, analysis, timers, overview,
            analyses>>

pageVars == <<cmpVars, uiVars, toast>>

vars == <<fb, hookVars, ft, fn, pageVars>>

(***************************************************************************)
(* Bounds of the model                                                     *)
(***************************************************************************)
MaxHistLen == 6

MaxDay == 2

MaxCalls == 2

Runs == {1, 2}

Prices == {100, 101, 110, 200}

\* Math.random() draws, in 1/FP; Math.random() is in [0, 1)
RandomSamples == {0, 2500, 5000, 9999}

FP == 100 * 100

(***************************************************************************)
(* Arithmetic helpers                                                      *)
(***************************************************************************)
Max(a, b) == IF a >= b THEN a ELSE b

Min(a, b) == IF a <= b THEN a ELSE b

Abs(a) == IF a >= 0 THEN a ELSE 0 - a

RECURSIVE SumSeq(_)
SumSeq(s) == IF s = <<>> THEN 0 ELSE Head(s) + SumSeq(Tail(s))

\* Array.prototype.slice(-k): the last k elements, all of them when fewer
SliceLast(s, k) == SubSeq(s, Max(1, Len(s) - k + 1), Len(s))

RECURSIVE SqrtSearch(_, _, _)
SqrtSearch(n, lo, hi) ==
    IF lo >= hi THEN lo
    ELSE LET mid == (lo + hi + 1) \div 2
         IN  IF mid * mid <= n THEN SqrtSearch(n, mid, hi)
             ELSE SqrtSearch(n, lo, mid - 1)

\* Math.sqrt on a count of 1/FP^2, giving a count of 1/FP
Sqrt(n) == SqrtSearch(n, 0, 46340)

\* Math.log of a whole price, in 1/FP
Ln(p) ==
    CASE p = 100 -> 46052 [] p = 101 -> 46151 [] p = 102 -> 46250
      [] p = 103 -> 46347 [] p = 104 -> 46444 [] p = 105 -> 46540
      [] p = 106 -> 46634 [] p = 107 -> 46728 [] p = 108 -> 46821
      [] p = 109 -> 46913 [] p = 110 -> 47005 [] p = 200 -> 52983

\* Math.round of a count of 1/100: nearest integer, halves up
RoundCenti(c) == (c + 50) \div 100

(***************************************************************************)
(* useStockPrediction.ts: the deterministic fallback                       *)
(***************************************************************************)
\* calculateMovingAverage compared: a/na > b/nb, exactly
calculateMovingAverage(data, period) ==
    LET relevantData == SliceLast(data, period)
    IN  [sum |-> SumSeq(relevantData), n |-> Len(relevantData)]

MAGreaterFlipped(a, b) == a.sum * b.n < b.sum * a.n

\* short_ma > long_ma
MAGreater(a, b) == a.sum * b.n > b.sum * a.n

\* returns[i] = Math.log(historicalData[i+1] / historicalData[i])
LogReturns(historicalData) ==
    [i \in 1..(Len(historicalData) - 1) |->
        Ln(historicalData[i + 1]) - Ln(historicalData[i])]

calculateStandardDeviation(data) ==
    LET mean == SumSeq(data) \div Len(data)
        squaredDifferences == [i \in 1..Len(data) |-> (data[i] - mean) * (data[i] - mean)]
        variance == SumSeq(squaredDifferences) \div Len(data)
    IN  Sqrt(variance)

\* n * sumXX - sumX * sumX, the slope's denominator
TrendDenominator(n) ==
    LET x == [i \in 1..n |-> i - 1]
        sumX == SumSeq(x)
        sumXX == SumSeq([i \in 1..n |-> x[i] * x[i]])
    IN  n * sumXX - sumX * sumX

\* slope / (sumY / n), in 1/FP
calculateLinearTrend(data) ==
    LET n == Len(data)
        x == [i \in 1..n |-> i - 1]
        sumX == SumSeq(x)
        sumY == SumSeq(data)
        sumXY == SumSeq([i \in 1..n |-> x[i] * data[i]])
    IN  ((n * sumXY - sumX * sumY) * n * FP) \div (TrendDenominator(n) * sumY)

MinHistoryOffByOne == 5 - 1

MinHistoryOneMore == 5 + 1

\* the length below which the fallback does not look at the history
MinHistory == 5

\* the random branch: currentPrice * (1 + (Math.random() - 0.5) * 0.02), confidence 65
ConservativePrediction(currentPrice, rnd) ==
    [price |-> currentPrice * (FP + ((rnd - FP \div 2) * 2) \div 100),
     confidence |-> 65]

ClampConfidenceNoFloor(confidence, volatility) ==
    RoundCenti(Min(95 * 100, confidence * 100 - volatility))

\* Math.max(50, Math.min(95, confidence - volatility * 100)), then Math.round
ClampConfidence(confidence, volatility) ==
    RoundCenti(Max(50 * 100, Min(95 * 100, confidence * 100 - volatility)))

ClampFactorUpperOnly(predictionFactor, maxChange) ==
    Min(maxChange, predictionFactor)

\* Math.max(-maxChange, Math.min(maxChange, predictionFactor))
ClampFactor(predictionFactor, maxChange) ==
    Max(0 - maxChange, Min(maxChange, predictionFactor))

MaxChangeAtLeast(volatility) == Max((5 * FP) \div 100, volatility * 2)

\* Math.min(0.05, volatility * 2)
MaxChange(volatility) == Min((5 * FP) \div 100, volatility * 2)

Volatility(historicalData) == calculateStandardDeviation(LogReturns(historicalData))

TrendWindowShort(historicalData) == SliceLast(historicalData, 4)

\* historicalData.slice(-10), what calculateLinearTrend is called on
TrendWindow(historicalData) == SliceLast(historicalData, 10)

\* the windows calculateAdvancedPrediction calls calculateLinearTrend on
TrendCalls(historicalData) ==
    IF Len(historicalData) < MinHistory THEN {} ELSE {TrendWindow(historicalData)}

\* the factor after the moving-average crossover: +0.01 or -0.01
Crossover(historicalData) ==
    LET short_ma == calculateMovingAverage(SliceLast(historicalData, 5), 5)
        long_ma == calculateMovingAverage(SliceLast(historicalData, 10), 10)
    IN  IF MAGreater(short_ma, long_ma) THEN FP \div 100 ELSE 0 - (FP \div 100)

\* the factor before the volatility clamp
RawFactor(currentPrice, historicalData) ==
    LET trend == calculateLinearTrend(TrendWindow(historicalData))
        lookback == historicalData[Max(0, Len(historicalData) - 5) + 1]
        momentum == ((currentPrice - lookback) * FP) \div lookback
    IN  Crossover(historicalData) + (trend * 5) \div 10 + (momentum * 3) \div 10

BaseConfidenceBonusTen(historicalData) ==
    LET short_ma == calculateMovingAverage(SliceLast(historicalData, 5), 5)
        long_ma == calculateMovingAverage(SliceLast(historicalData, 10), 10)
    IN  IF MAGreater(short_ma, long_ma) THEN 70 + 10 ELSE 70 + 5

\* the confidence before the volatility adjustment: 70, plus 5 on either branch
BaseConfidence(historicalData) ==
    LET short_ma == calculateMovingAverage(SliceLast(historicalData, 5), 5)
        long_ma == calculateMovingAverage(SliceLast(historicalData, 10), 10)
    IN  IF MAGreater(short_ma, long_ma) THEN 70 + 5 ELSE 70 + 5

calculateAdvancedPrediction(currentPrice, historicalData, rnd) ==
    IF Len(historicalData) < MinHistory
    THEN ConservativePrediction(currentPrice, rnd)
    ELSE LET volatility == Volatility(historicalData)
             predictionFactor == ClampFactor(RawFactor(currentPrice, historicalData),
                                             MaxChange(volatility))
         IN  [price |-> currentPrice * (FP + predictionFactor),
              confidence |-> ClampConfidence(BaseConfidence(historicalData), volatility)]

(***************************************************************************)
(* The fallback as a state machine: an input is drawn, the call is made    *)
(***************************************************************************)
RECURSIVE SeqsUpTo(_, _)
SeqsUpTo(S, n) ==
    IF n = 0 THEN {<<>>}
    ELSE LET shorter == SeqsUpTo(S, n - 1)
         IN  shorter \cup {Append(s, e) : s \in {t \in shorter : Len(t) = n - 1}, e \in S}

\* a rising history of ten prices, and one of twelve that starts with a fall
ExampleHistory == <<100, 101, 102, 103, 104, 105, 106, 107, 108, 109>>

LongerHistory == <<200, 110>> \o ExampleHistory

Histories == SeqsUpTo(Prices, MaxHistLen) \cup {ExampleHistory, LongerHistory}

NoOutput == [price |-> 0, confidence |-> 0]

FbIdle == [pc |-> "off", currentPrice |-> 0, historicalData |-> <<>>, out |-> NoOutput]

(***************************************************************************)
(* The cache table and the values that cross it                            *)
(***************************************************************************)
Null == [null |-> TRUE]

Symbols == {"AAPL", "aapl", "MSFT"}

\* String.prototype.toUpperCase on the symbols of the model
ToUpperCase(symbol) ==
    CASE symbol = "aapl" -> "AAPL"
      [] symbol = "AAPL" -> "AAPL"
      [] symbol = "MSFT" -> "MSFT"
      [] symbol = "ZZZZ" -> "ZZZZ"
      [] symbol = "GOOGL" -> "GOOGL"
      [] symbol = "TSLA" -> "TSLA"
      [] symbol = "" -> ""

\* the columns getCachedPrediction filters on and reads
Columns == {"symbol", "current_price", "predicted_price", "confidence", "prediction_date"}

\* a number sent as a column value; <<>> is the NULL cell
ToCell(v) == <<v>>

\* parseFloat(cell?.toString() || '0')
ParseFloatCell(c) == IF c = <<>> THEN 0 ELSE c[1]

\* the conflict target of the upsert: onConflict: 'symbol,prediction_date'
SameKey(r, row) == r.symbol = row.symbol /\ r.prediction_date = row.prediction_date

UpsertMixesFields(table, row) ==
    IF DOMAIN row # Columns
    THEN [ok |-> FALSE, table |-> table]
    ELSE LET old == {r \in table : SameKey(r, row)}
         IN  [ok |-> TRUE,
              table |-> (table \ old)
                  \cup (IF old = {} THEN {row}
                        ELSE {[row EXCEPT !.confidence = r.confidence] : r \in old})]

\* .from('stock_predictions').upsert(row, {onConflict: 'symbol,prediction_date'}):
\* a row naming a column the table does not have is refused, otherwise the
\* row replaces the one with its key
Upsert(table, row) ==
    IF DOMAIN row # Columns
    THEN [ok |-> FALSE, table |-> table]
    ELSE [ok |-> TRUE, table |-> {r \in table : ~SameKey(r, row)} \cup {row}]

SelectIgnoringDate(table, symbol, date) ==
    LET rows == {r \in table : r.symbol = symbol}
    IN  IF rows = {} THEN [data |-> Null, error |-> FALSE]
        ELSE IF Cardinality(rows) > 1 THEN [data |-> Null, error |-> TRUE]
        ELSE [data |-> CHOOSE r \in rows : TRUE, error |-> FALSE]

\* .select('*').eq('symbol', S).eq('prediction_date', D).maybeSingle():
\* no row gives no data, several rows give an error
SelectMaybeSingle(table, symbol, date) ==
    LET rows == {r \in table : r.symbol = symbol /\ r.prediction_date = date}
    IN  IF rows = {} THEN [data |-> Null, error |-> FALSE]
        ELSE IF Cardinality(rows) > 1 THEN [data |-> Null, error |-> TRUE]
        ELSE [data |-> CHOOSE r \in rows : TRUE, error |-> FALSE]

getCachedPredictionNoUpper(table, symbol, date, up) ==
    LET res == IF up THEN SelectMaybeSingle(table, symbol, date)
               ELSE [data |-> Null, error |-> TRUE]
    IN  IF res.error \/ res.data = Null THEN Null
        ELSE [symbol |-> res.data.symbol,
              currentPrice |-> ParseFloatCell(res.data.current_price),
              predictedPrice |-> ParseFloatCell(res.data.predicted_price),
              confidence |-> ParseFloatCell(res.data.confidence),
              predictionDate |-> res.data.prediction_date]

\* getCachedPrediction(symbol), the store answering (up) or not
getCachedPrediction(table, symbol, date, up) ==
    LET res == IF up THEN SelectMaybeSingle(table, ToUpperCase(symbol), date)
               ELSE [data |-> Null, error |-> TRUE]
    IN  IF res.error \/ res.data = Null THEN Null
        ELSE [symbol |-> res.data.symbol,
              currentPrice |-> ParseFloatCell(res.data.current_price),
              predictedPrice |-> ParseFloatCell(res.data.predicted_price),
              confidence |-> ParseFloatCell(res.data.confidence),
              predictionDate |-> res.data.prediction_date]

(***************************************************************************)
(* The AI strategy: the edge function and callGeminiForPrediction          *)
(***************************************************************************)
\* what the model lets the AI answer: a price in 1/FP dollars and a confidence
AiPrices == {105 * FP}

AiConfidences == {80, 99}

\* "json": the AI text holds {price, confidence}; "httpError": the Gemini
\* call is not ok; "noJson": the text holds no {...}; "network": the
\* invocation of the edge function itself fails
AiOutcomes ==
    {[kind |-> "json", price |-> p, confidence |-> c] : p \in AiPrices, c \in AiConfidences}
        \cup {[kind |-> k, price |-> 0, confidence |-> 0] : k \in {"httpError", "noJson", "network"}}

\* callGeminiForAnalysis: the parsed fields are relayed as they are
callGeminiForAnalysis(outcome) ==
    IF outcome.kind = "json"
    THEN [threw |-> FALSE, price |-> outcome.price, confidence |-> outcome.confidence]
    ELSE [threw |-> TRUE, price |-> 0, confidence |-> 0]

\* serve of gemini-stock-prediction: 200 with the prediction, 500 with {error}
serveGemini(outcome) ==
    LET r == callGeminiForAnalysis(outcome)
    IN  IF r.threw THEN [status |-> 500, price |-> 0, confidence |-> 0]
        ELSE [status |-> 200, price |-> r.price, confidence |-> r.confidence]

\* supabase.functions.invoke: error is set on a failed fetch or a non-2xx status
invoke(outcome) ==
    IF outcome.kind = "network" THEN [error |-> TRUE, price |-> 0, confidence |-> 0]
    ELSE LET resp == serveGemini(outcome)
         IN  [error |-> resp.status # 200, price |-> resp.price, confidence |-> resp.confidence]

callGeminiNoFallback(outcome, currentPrice, historicalData, rnd) ==
    LET response == invoke(outcome)
    IN  [threw |-> response.error, price |-> response.price,
         confidence |-> response.confidence]

\* callGeminiForPrediction: response.data, or on any failure the fallback
callGeminiForPrediction(outcome, currentPrice, historicalData, rnd) ==
    LET response == invoke(outcome)
    IN  IF response.error
        THEN [threw |-> FALSE] @@ calculateAdvancedPrediction(currentPrice, historicalData, rnd)
        ELSE [threw |-> FALSE, price |-> response.price, confidence |-> response.confidence]

(***************************************************************************)
(* generatePrediction: the row it upserts and the result it returns        *)
(***************************************************************************)
PredictionDataNoUpper(symbol, currentPrice, p, date) ==
    [symbol |-> symbol,
     current_price |-> ToCell(currentPrice),
     predicted_price |-> ToCell(p.price),
     confidence |-> ToCell(p.confidence),
     prediction_date |-> date]

\* the first copy of the hook: column names of the table
PredictionData(symbol, currentPrice, p, date) ==
    [symbol |-> ToUpperCase(symbol),
     current_price |-> ToCell(currentPrice),
     predicted_price |-> ToCell(p.price),
     confidence |-> ToCell(p.confidence),
     prediction_date |-> date]

\* the second copy of the hook: the result's own field names
PredictionDataLocal(symbol, currentPrice, p, date) ==
    [symbol |-> ToUpperCase(symbol),
     currentPrice |-> ToCell(currentPrice),
     predictedPrice |-> ToCell(p.price),
     confidence |-> ToCell(p.confidence),
     predictionDate |-> date]

\* what generatePrediction returns, built from the values put in the row
PredictionResult(symbol, currentPrice, p, date) ==
    [symbol |-> ToUpperCase(symbol),
     currentPrice |-> currentPrice,
     predictedPrice |-> p.price,
     confidence |-> p.confidence,
     predictionDate |-> date]

(***************************************************************************)
(* useStockData.ts: quotes and charts, live or simulated                   *)
(***************************************************************************)
\* the table of getBasePriceForSymbol; 0 stands for a symbol it does not list
BasePriceTable(symbol) ==
    CASE symbol = "AAPL" -> 180
      [] symbol = "MSFT" -> 380
      [] OTHER -> 0

\* basePrices[symbol.toUpperCase()] || (100 + Math.random() * 200), in cents
getBasePriceForSymbol(symbol, rnd) ==
    LET listed == BasePriceTable(ToUpperCase(symbol))
    IN  IF listed # 0 THEN listed * 100 ELSE 100 * 100 + (rnd * 200 * 100) \div FP

\* price = basePrice + basePrice * ((Math.random() - 0.5) * 8) / 100, in cents
generateSimulatedStockPrice(symbol, rnd) ==
    LET basePrice == getBasePriceForSymbol(symbol, rnd)
        changePercent == (rnd - FP \div 2) * 8
    IN  [source |-> "simulated", symbol |-> symbol,
         price |-> basePrice + (basePrice * changePercent) \div (FP * 100)]

\* the points pushed for i = k - 1 down to 0: a walk of at most 2% a step
RECURSIVE SimulatedWalk(_, _, _)
SimulatedWalk(k, currentPrice, rnd) ==
    IF k = 0 THEN <<>>
    ELSE LET randomChange == ((rnd - FP \div 2) * 2 * 2) \div 100
             next == (currentPrice * (FP + randomChange)) \div FP
         IN  <<[timestamp |-> 0 - (k - 1), price |-> next]>>
                 \o SimulatedWalk(k - 1, next, rnd)

\* the number of points a chart holds
ChartPoints == 30

\* generateSimulatedChartData: timestamps in days relative to Date.now()
generateSimulatedChartData(symbol, rnd) ==
    [source |-> "simulated",
     points |-> SimulatedWalk(ChartPoints, getBasePriceForSymbol(symbol, rnd), rnd)]

\* what the quote endpoint may answer
QuoteReplies ==
    {"ok", "networkError", "httpError", "badJson", "errorMessage", "note",
     "noQuote", "emptyQuote"}

\* the price of a live quote, in cents
LivePrice(symbol) == 100 * 100 + 23

LiveQuote(symbol) == [source |-> "live", symbol |-> symbol, price |-> LivePrice(symbol)]

fetchStockPriceNullOnFailure(symbol, reply, rnd) ==
    IF reply = "ok" THEN LiveQuote(symbol) ELSE Null

\* fetchStockPrice: the live quote; the simulated one when the payload
\* carries 'Error Message' or 'Note', and from the catch when fetch throws,
\* the status is not ok, the body is no JSON, 'Global Quote' is missing, or
\* it is {} (reading '10. change percent' of it throws)
fetchStockPrice(symbol, reply, rnd) ==
    CASE reply = "ok" -> LiveQuote(symbol)
      [] reply \in {"errorMessage", "note"} -> generateSimulatedStockPrice(symbol, rnd)
      [] OTHER -> generateSimulatedStockPrice(symbol, rnd)

\* the time series of a payload, newest first: n entries
PayloadSeries(n) == [i \in 1..n |-> [timestamp |-> 0 - (i - 1), price |-> 100 * 100 + i]]

Reverse(s) == [i \in 1..Len(s) |-> s[Len(s) + 1 - i]]

LiveChartNoReverse(n) ==
    [source |-> "live", points |-> SubSeq(PayloadSeries(n), 1, Min(n, ChartPoints))]

\* Object.entries(timeSeries).slice(0, 30).map(...).reverse()
LiveChart(n) ==
    [source |-> "live",
     points |-> Reverse(SubSeq(PayloadSeries(n), 1, Min(n, ChartPoints)))]

\* what the chart endpoint may answer; "series" comes with a length
ChartFailures ==
    {"networkError", "httpError", "badJson", "errorMessage", "note", "noSeries"}

\* fetchStockChart: the live series when the payload holds one (!timeSeries
\* is false for any object, {} too), the simulated one otherwise
fetchStockChart(symbol, reply, n, rnd) ==
    IF reply = "series" THEN LiveChart(n) ELSE generateSimulatedChartData(symbol, rnd)

RECURSIVE SelectSeq2(_, _)
SelectSeq2(s, keep) ==
    IF s = <<>> THEN <<>>
    ELSE (IF keep[1] THEN <<Head(s)>> ELSE <<>>)
            \o SelectSeq2(Tail(s), Tail(keep))

\* useStockData.fetchMarketOverview: Promise.allSettled over fetchStockPrice,
\* the fulfilled non-null values kept
fetchMarketOverview(symbols, replies, rnd) ==
    LET results == [i \in 1..Len(symbols) |-> fetchStockPrice(symbols[i], replies[i], rnd)]
    IN  SelectSeq2(results, [i \in 1..Len(symbols) |-> results[i] # Null])

(***************************************************************************)
(* supabase/functions/stock-data: the edge function's overview             *)
(***************************************************************************)
\* fetchStockQuote: the quote, or a throw ("Unable to fetch data for ...")
\* when fetch throws, the status is not ok, the body is no JSON, or data[0]
\* is missing
fetchStockQuote(symbol, reply) ==
    IF reply = "ok" THEN [threw |-> FALSE, value |-> LiveQuote(symbol)]
    ELSE [threw |-> TRUE, value |-> Null]

\* fetchMarketOverview of the edge function: each fetchStockQuote with
\* .catch(() => null), Promise.allSettled, the fulfilled non-null values kept
edgeFetchMarketOverview(symbols, replies) ==
    LET results == [i \in 1..Len(symbols) |->
                        LET q == fetchStockQuote(symbols[i], replies[i])
                        IN  IF q.threw THEN Null ELSE q.value]
    IN  SelectSeq2(results, [i \in 1..Len(symbols) |-> results[i] # Null])

\* fetchHistoricalData of the edge function: data.historical (newest first)
\* .slice(0, 30).map(...).reverse(); a throw when fetch throws, the status is
\* not ok, the body is no JSON, or historical is missing or empty
fetchHistoricalData(symbol, reply, n) ==
    IF reply = "series" /\ n > 0
    THEN [source |-> "live",
          points |-> Reverse(SubSeq(PayloadSeries(n), 1, Min(n, ChartPoints)))]
    ELSE [source |-> "threw", points |-> <<>>]

(***************************************************************************)
(* The data layer as a state machine: a call is drawn, the call is made    *)
(***************************************************************************)
FetchSymbols == {"AAPL", "ZZZZ"}

SymbolLists == {<<>>, <<"AAPL">>, <<"AAPL", "ZZZZ">>, <<"ZZZZ", "MSFT", "AAPL">>}

\* lengths of the time series a payload may hold
SeriesLengths == {0, 1, 2, ChartPoints, ChartPoints + 1}

\* the replies of the edge function's quote endpoint, named as the hook's
EdgeReplies == {"ok", "networkError", "httpError", "badJson", "noQuote", "errorMessage"}

RECURSIVE SeqsOfLen(_, _)
SeqsOfLen(S, n) ==
    IF n = 0 THEN {<<>>}
    ELSE {Append(s, e) : s \in SeqsOfLen(S, n - 1), e \in S}

FtIdle == [pc |-> "off", op |-> "none", symbols |-> <<>>, replies |-> <<>>, n |-> 0,
           out |-> Null]

FtCall(op, symbols, replies, n) ==
    [pc |-> "call", op |-> op, symbols |-> symbols, replies |-> replies, n |-> n,
     out |-> Null]

FnIdle == [pc |-> "off", op |-> "none", arg |-> Null, out |-> Null]

FnCall(op, arg) == [pc |-> "call", op |-> op, arg |-> arg, out |-> Null]


(***************************************************************************)
(* Inputs of the hook model                                                *)
(***************************************************************************)
\* the prices fetchStockPrice hands to handleAnalyze
SpotPrices == {100}

\* the price histories fetchStockChart hands to handleAnalyze
SampleHistories == {<<>>, <<100, 200, 100, 200, 100>>}

\* the Math.random() draws of the hook model, in 1/FP
HookRandom == {0, 9999}

IdleRun ==
    [pc |-> "idle", kind |-> "none", symbol |-> "", cached |-> Null,
     currentPrice |-> 0, historicalData |-> <<>>, aiFailed |-> FALSE,
     row |-> Null, result |-> Null]

HookStart ==
    /\ store = {}
    /\ today = 1
    /\ run = [p \in Runs |-> IdleRun]
    /\ prediction = Null
    /\ loading = FALSE
    /\ error = Null
    /\ generated = {}
    /\ calls = 0
    /\ shownFrom = "none"
    /\ upserts = 0

HookOff == version = "off" /\ HookStart

\* the slots of the model for addStock calls in flight; slot 0 is the call
\* loadDefaults awaits
AddIds == {0, 1, 2}

IdleAdd == [pc |-> "idle", newSymbol |-> ""]

IdleAnalysis == [pc |-> "idle", symbol |-> "", cached |-> Null]

\* no fetchMarketOverview call is in flight; loading is the useStockData
\* state of the component that calls it
OverviewIdle == [left |-> 0, loading |-> FALSE]

\* the Compare page is not mounted
CompareOff ==
    /\ newSymbol = ""
    /\ stocks = <<>>
    /\ isLoading = FALSE
    /\ adds = [a \in AddIds |-> IdleAdd]
    /\ mount = [pc |-> "off", i |-> 0]
    /\ addCalls = 0

\* the Predict page is not mounted and nothing calls useStockData
PredictOff ==
    /\ searchSymbol = ""
    /\ currentStock = Null
    /\ isAnalyzing = FALSE
    /\ stockLoading = FALSE
    /\ analysis = [p \in Runs |-> IdleAnalysis]
    /\ timers = <<>>
    /\ overview = OverviewIdle
    /\ analyses = 0

PagesOff == CompareOff /\ PredictOff /\ toast = "none"

Init ==
    /\ PagesOff
    /\ fb = FbIdle
    /\ ft = FtIdle
    /\ fn = FnIdle
    /\ version \in {"gemini", "local"}
    /\ HookStart

\* generatePrediction up to its first await: setLoading(true), setError(null);
\* the first copy awaits the AI call, the second computes the fallback at
\* once, builds its row and awaits the upsert
BeginGenerate(p, r, rnd) ==
    /\ loading' = TRUE
    /\ error' = Null
    /\ IF version = "gemini"
       THEN run' = [run EXCEPT ![p] = [r EXCEPT !.pc = "ai"]]
       ELSE LET pr == calculateAdvancedPrediction(r.currentPrice, r.historicalData, rnd)
            IN  run' = [run EXCEPT ![p] =
                    [r EXCEPT !.pc = "upsert",
                              !.row = PredictionDataLocal(r.symbol, r.currentPrice, pr, today),
                              !.result = PredictionResult(r.symbol, r.currentPrice, pr, today)]]

\* a caller of the hook calls generatePrediction(symbol, currentPrice, historicalData)
GenerateDirect(p) ==
    /\ run[p].pc = "idle"
    /\ calls < MaxCalls
    /\ calls' = calls + 1
    /\ \E s \in Symbols, cp \in SpotPrices, h \in SampleHistories, rnd \in HookRandom :
          BeginGenerate(p, [IdleRun EXCEPT !.kind = "direct", !.symbol = s,
                                           !.currentPrice = cp, !.historicalData = h], rnd)
    /\ UNCHANGED <<pageVars, fn, fb, ft, upserts, version, store, today, prediction, generated, shownFrom>>

\* the AI call settles: the row is built with the date of that moment and
\* the upsert is sent
AiSettles(p) ==
    /\ run[p].pc = "ai"
    /\ \E outcome \in AiOutcomes, rnd \in HookRandom :
          LET r == run[p]
              a == callGeminiForPrediction(outcome, r.currentPrice, r.historicalData, rnd)
          IN  IF a.threw
              THEN \* catch: setError, return null; finally: setLoading(false);
                   \* in the same turn handleAnalyze goes on to setPrediction(null)
                   /\ error' = [message |-> "Failed to generate prediction"]
                   /\ loading' = FALSE
                   /\ run' = [run EXCEPT ![p] = IdleRun]
                   /\ prediction' = IF r.kind = "analyze" THEN Null ELSE prediction
                   /\ shownFrom' = IF r.kind = "analyze" THEN "none" ELSE shownFrom
              ELSE /\ run' = [run EXCEPT ![p] =
                          [r EXCEPT !.pc = "upsert", !.aiFailed = invoke(outcome).error,
                                    !.row = PredictionData(r.symbol, r.currentPrice, a, today),
                                    !.result = PredictionResult(r.symbol, r.currentPrice, a, today)]]
                   /\ UNCHANGED <<error, loading, prediction, shownFrom>>
    /\ UNCHANGED <<pageVars, fn, fb, ft, upserts, version, store, today, generated, calls>>

\* the upsert is answered: with an error (the store is down, or it refuses
\* the row), which is only logged, or after replacing the row of the key;
\* generatePrediction returns its result; finally: setLoading(false); in the
\* same turn handleAnalyze goes on to setPrediction(predictionResult)
UpsertSettles(p) ==
    /\ run[p].pc = "upsert"
    /\ \E up \in BOOLEAN :
          LET r == run[p]
              res == IF up THEN Upsert(store, r.row) ELSE [ok |-> FALSE, table |-> store]
          IN  /\ store' = res.table
              /\ generated' =
                    IF up
                    THEN {g \in generated : ~(g.symbol = r.result.symbol
                                              /\ g.predictionDate = r.result.predictionDate)}
                            \cup {r.result}
                    ELSE generated
              /\ upserts' = IF res.ok THEN upserts + 1 ELSE upserts
              /\ prediction' = IF r.kind = "analyze" THEN r.result ELSE prediction
              /\ shownFrom' = IF r.kind = "analyze" THEN "generated" ELSE shownFrom
    /\ run' = [run EXCEPT ![p] = IdleRun]
    /\ loading' = FALSE
    /\ UNCHANGED <<pageVars, fn, fb, ft, version, today, error, calls>>

(***************************************************************************)
(* Predict.tsx: handleAnalyze                                              *)
(***************************************************************************)
\* handleAnalyze starts: getCachedPrediction(searchSymbol.toUpperCase()) is sent
AnalyzeStart(p) ==
    /\ run[p].pc = "idle"
    /\ calls < MaxCalls
    /\ calls' = calls + 1
    /\ \E s \in {ToUpperCase(t) : t \in Symbols} :
          run' = [run EXCEPT ![p] =
                     [IdleRun EXCEPT !.pc = "cache", !.kind = "analyze", !.symbol = s]]
    /\ UNCHANGED <<pageVars, fn, fb, ft, upserts, version, store, today, prediction, loading, error, generated,
                   shownFrom>>

\* the cache read is answered
CacheSettles(p) ==
    /\ run[p].pc = "cache"
    /\ \E up \in BOOLEAN :
          run' = [run EXCEPT ![p].pc = "fetch",
                             ![p].cached = getCachedPrediction(store, run[p].symbol, today, up)]
    /\ UNCHANGED <<pageVars, fn, fb, ft, upserts, version, store, today, prediction, loading, error, generated,
                   calls, shownFrom>>

AlwaysGenerate(cached) == TRUE

\* if (!cached)
MustGenerate(cached) == cached = Null

\* the quote and the history have arrived: the cached prediction is shown
\* and the run is over, or generatePrediction is called
FetchSettles(p) ==
    /\ run[p].pc = "fetch"
    /\ \E cp \in SpotPrices, h \in SampleHistories, rnd \in HookRandom :
          LET r == [run[p] EXCEPT !.currentPrice = cp, !.historicalData = h]
          IN  IF MustGenerate(r.cached)
              THEN /\ BeginGenerate(p, r, rnd)
                   /\ UNCHANGED <<prediction, shownFrom>>
              ELSE /\ run' = [run EXCEPT ![p] = IdleRun]
                   /\ prediction' = r.cached
                   /\ shownFrom' = "cache"
                   /\ UNCHANGED <<loading, error>>
    /\ UNCHANGED <<pageVars, fn, fb, ft, upserts, version, store, today, generated, calls>>

\* midnight UTC passes
DateRollover ==
    /\ today < MaxDay
    /\ today' = today + 1
    /\ UNCHANGED <<pageVars, fn, fb, ft, upserts, version, store, run, prediction, loading, error, generated,
                   calls, shownFrom>>

\* the hook under any caller
Next ==
    \/ \E p \in Runs : GenerateDirect(p)
    \/ \E p \in Runs : AiSettles(p)
    \/ \E p \in Runs : UpsertSettles(p)
    \/ DateRollover

Spec == Init /\ [][Next]_vars

\* the hook under the Predict page
NextPage ==
    \/ \E p \in Runs : AnalyzeStart(p)
    \/ \E p \in Runs : CacheSettles(p)
    \/ \E p \in Runs : FetchSettles(p)
    \/ \E p \in Runs : AiSettles(p)
    \/ \E p \in Runs : UpsertSettles(p)
    \/ DateRollover

SpecPage == Init /\ [][NextPage]_vars

(***************************************************************************)
(* stockUtils.ts: the chart's prediction points                            *)
(***************************************************************************)
\* the default of the days parameter
UtilsDays == 5

\* calculateTrend: the least-squares slope, in 1/FP dollars a step
calculateTrend(prices) ==
    LET n == Len(prices)
        x == [i \in 1..n |-> i - 1]
        sumX == SumSeq(x)
        sumY == SumSeq(prices)
        sumXY == SumSeq([i \in 1..n |-> x[i] * prices[i]])
    IN  ((n * sumXY - sumX * sumY) * FP) \div TrendDenominator(n)

\* generatePrediction of stockUtils: no point for fewer than 5 prices,
\* otherwise Math.max(1, movingAverage + trend * i + (Math.random() - 0.5)
\* * movingAverage * 0.01) for i = 1..days, in 1/FP dollars; trendWindows
\* holds what calculateTrend was called on
utilsGeneratePrediction(historicalData, days, rnd) ==
    IF Len(historicalData) < 5 THEN [predictions |-> <<>>, trendWindows |-> {}]
    ELSE LET recentPrices == SliceLast(historicalData, 10)
             movingAverage == (SumSeq(recentPrices) * FP) \div Len(recentPrices)
             trend == calculateTrend(recentPrices)
         IN  [predictions |->
                 [i \in 1..days |->
                     Max(FP, movingAverage + trend * i
                                + ((rnd - FP \div 2) * (movingAverage \div 100)) \div FP)],
              trendWindows |-> {recentPrices}]

(***************************************************************************)
(* The fallback and the chart's prediction on their own                    *)
(***************************************************************************)
InitFallback ==
    /\ PagesOff
    /\ HookOff
    /\ ft = FtIdle
    /\ \/ /\ fn = FnIdle
          /\ \E cp \in Prices, h \in Histories :
                fb = [pc |-> "call", currentPrice |-> cp, historicalData |-> h,
                      out |-> NoOutput]
       \/ /\ fb = FbIdle
          /\ \E h \in Histories : fn = FnCall("utilsPrediction", h)

FallbackCall ==
    /\ fb.pc = "call"
    /\ \E rnd \in RandomSamples :
        fb' = [fb EXCEPT !.pc = "done",
                         !.out = calculateAdvancedPrediction(fb.currentPrice,
                                                             fb.historicalData, rnd)]
    /\ UNCHANGED <<pageVars, fn, hookVars, ft>>

UtilsPredictionCall ==
    /\ fn.pc = "call" /\ fn.op = "utilsPrediction"
    /\ \E rnd \in RandomSamples :
        fn' = [fn EXCEPT !.pc = "done",
                         !.out = utilsGeneratePrediction(fn.arg, UtilsDays, rnd)]
    /\ UNCHANGED <<pageVars, fb, hookVars, ft>>

NextFallback == FallbackCall \/ UtilsPredictionCall

SpecFallback == InitFallback /\ [][NextFallback]_vars

(***************************************************************************)
(* The data layer on its own                                               *)
(***************************************************************************)
InitFetch ==
    /\ PagesOff
    /\ fb = FbIdle
    /\ fn = FnIdle
    /\ HookOff
    /\ \/ \E s \in FetchSymbols, r \in QuoteReplies : ft = FtCall("price", <<s>>, <<r>>, 0)
       \/ \E s \in FetchSymbols, r \in ChartFailures : ft = FtCall("chart", <<s>>, <<r>>, 0)
       \/ \E s \in FetchSymbols, n \in SeriesLengths :
             ft = FtCall("chart", <<s>>, <<"series">>, n)
       \/ \E l \in SymbolLists : \E rs \in SeqsOfLen(QuoteReplies, Len(l)) :
             ft = FtCall("overview", l, rs, 0)
       \/ \E l \in SymbolLists : \E rs \in SeqsOfLen(EdgeReplies, Len(l)) :
             ft = FtCall("edgeOverview", l, rs, 0)
       \/ \E s \in FetchSymbols, r \in ChartFailures : ft = FtCall("edgeHistory", <<s>>, <<r>>, 0)
       \/ \E s \in FetchSymbols, n \in SeriesLengths :
             ft = FtCall("edgeHistory", <<s>>, <<"series">>, n)

PriceCall ==
    /\ ft.pc = "call" /\ ft.op = "price"
    /\ \E rnd \in RandomSamples :
          ft' = [ft EXCEPT !.pc = "done",
                           !.out = fetchStockPrice(ft.symbols[1], ft.replies[1], rnd)]
    /\ UNCHANGED <<pageVars, fn, fb, hookVars>>

ChartCall ==
    /\ ft.pc = "call" /\ ft.op = "chart"
    /\ \E rnd \in RandomSamples :
          ft' = [ft EXCEPT !.pc = "done",
                           !.out = fetchStockChart(ft.symbols[1], ft.replies[1], ft.n, rnd)]
    /\ UNCHANGED <<pageVars, fn, fb, hookVars>>

OverviewCall ==
    /\ ft.pc = "call" /\ ft.op = "overview"
    /\ \E rnd \in RandomSamples :
          ft' = [ft EXCEPT !.pc = "done",
                           !.out = fetchMarketOverview(ft.symbols, ft.replies, rnd)]
    /\ UNCHANGED <<pageVars, fn, fb, hookVars>>

EdgeOverviewCall ==
    /\ ft.pc = "call" /\ ft.op = "edgeOverview"
    /\ ft' = [ft EXCEPT !.pc = "done",
                        !.out = edgeFetchMarketOverview(ft.symbols, ft.replies)]
    /\ UNCHANGED <<pageVars, fn, fb, hookVars>>

EdgeHistoryCall ==
    /\ ft.pc = "call" /\ ft.op = "edgeHistory"
    /\ ft' = [ft EXCEPT !.pc = "done",
                        !.out = fetchHistoricalData(ft.symbols[1], ft.replies[1], ft.n)]
    /\ UNCHANGED <<pageVars, fn, fb, hookVars>>

NextFetch == PriceCall \/ ChartCall \/ OverviewCall \/ EdgeOverviewCall \/ EdgeHistoryCall

SpecFetch == InitFetch /\ [][NextFetch]_vars

(***************************************************************************)
(* The edge functions on their own: one call of one of their functions     *)
(***************************************************************************)
\* the longest AI text of the model, in tokens
MaxTextLen == 5

\* an AI text as tokens: a brace, "j" for text that is JSON inside an
\* object (members, commas), "t" for any other text
TextTokens == {"{", "}", "j", "t"}

Texts == SeqsUpTo(TextTokens, MaxTextLen)

RECURSIVE IndexOfFirst(_, _, _)
IndexOfFirst(text, tok, i) ==
    IF i > Len(text) THEN 0
    ELSE IF text[i] = tok THEN i ELSE IndexOfFirst(text, tok, i + 1)

RECURSIVE IndexOfLast(_, _, _)
IndexOfLast(text, tok, i) ==
    IF i = 0 THEN 0
    ELSE IF text[i] = tok THEN i ELSE IndexOfLast(text, tok, i - 1)

\* text.match(/\{[\s\S]*\}/): from the first "{" to the last "}" of the
\* text, <<>> when there is no match
RegexMatch(text) ==
    LET first == IndexOfFirst(text, "{", 1)
        last == IndexOfLast(text, "}", Len(text))
    IN  IF first # 0 /\ last > first THEN SubSeq(text, first, last) ELSE <<>>

\* the depth after token i of s, -1 once s is no JSON object: text outside
\* JSON, or something after the closing brace of the first one
RECURSIVE BraceDepth(_, _)
BraceDepth(s, i) ==
    IF i = 0 THEN 0
    ELSE LET before == BraceDepth(s, i - 1)
         IN  IF before < 0 \/ (before = 0 /\ i > 1) \/ s[i] = "t" THEN 0 - 1
             ELSE IF s[i] = "{" THEN before + 1
             ELSE IF s[i] = "}" THEN before - 1
             ELSE IF before = 0 THEN 0 - 1 ELSE before

\* JSON.parse gives an object: s is one balanced {...} of JSON text
JsonParses(s) == s # <<>> /\ BraceDepth(s, Len(s)) = 0

\* lines 202-216 of callGeminiForAnalysis: the match is parsed and its
\* fields returned; no match throws 'Invalid response format from Gemini',
\* JSON.parse may throw a SyntaxError, and the catch rethrows either as
\* 'AI prediction failed'
ExtractJson(text) ==
    LET jsonMatch == RegexMatch(text)
    IN  IF jsonMatch = <<>> THEN [threw |-> TRUE, cause |-> "invalidFormat", parsed |-> <<>>]
        ELSE IF JsonParses(jsonMatch)
             THEN [threw |-> FALSE, cause |-> "none", parsed |-> jsonMatch]
             ELSE [threw |-> TRUE, cause |-> "syntaxError", parsed |-> <<>>]

\* the longest of the short series of closes of the model
MaxShortCloses == 3

ClosePrices == {90, 100, 110}

\* daily closes, newest first: the short series, and series of 13 to 16
\* closes made of a head of 13 and a tail of up to 3
CloseSeries ==
    SeqsUpTo(ClosePrices, MaxShortCloses)
        \cup {head \o tail :
                head \in {[i \in 1..13 |-> 100],
                          [i \in 1..13 |-> IF i = 1 THEN 110 ELSE 100],
                          [i \in 1..13 |-> IF i = 1 THEN 90 ELSE 100]},
                tail \in SeqsUpTo(ClosePrices, 3)}

RECURSIVE MinOf(_)
MinOf(s) == IF Len(s) = 1 THEN s[1] ELSE Min(s[1], MinOf(Tail(s)))

RECURSIVE MaxOf(_)
MaxOf(s) == IF Len(s) = 1 THEN s[1] ELSE Max(s[1], MaxOf(Tail(s)))

IndicatorWindowAll(closes) == closes

\* Object.values(timeSeries).slice(0, 14)
IndicatorWindow(closes) == SubSeq(closes, 1, Min(14, Len(closes)))

\* what the daily series endpoint may answer; "series" comes with closes
IndicatorFailures == {"networkError", "httpError", "badJson", "noSeries"}

\* getTechnicalIndicators: a throw when fetch throws, the status is not ok,
\* the body is no JSON, or the series is missing or empty; otherwise rsi,
\* trend, and support and resistance in 1/100 dollars
getTechnicalIndicators(reply, closes) ==
    IF reply # "series" \/ closes = <<>>
    THEN [threw |-> TRUE, rsi |-> 0, trend |-> "none", support |-> 0, resistance |-> 0]
    ELSE LET prices == IndicatorWindow(closes)
             currentPrice == prices[1]
             above == currentPrice * Len(prices) > SumSeq(prices)
         IN  [threw |-> FALSE,
              rsi |-> IF above THEN 65 ELSE 35,
              trend |-> IF above THEN "bullish" ELSE "bearish",
              support |-> MinOf(prices) * 98,
              resistance |-> MaxOf(prices) * 102]

\* a response: its status and whether its body is the data, {error: message}
\* or null; confidence is that of a prediction in the body, 0 otherwise
OptionsResponse == [status |-> 200, body |-> "none", confidence |-> 0]

DataResponse(confidence) == [status |-> 200, body |-> "data", confidence |-> confidence]

ErrorResponseNoStatus == [status |-> 200, body |-> "error", confidence |-> 0]

\* the catch of serve: JSON.stringify({error: error.message}), status: 500
ErrorResponse == [status |-> 500, body |-> "error", confidence |-> 0]

\* a request to an edge function and what its upstream calls will answer
Request(service, method, body) ==
    [service |-> service, method |-> method, body |-> body, action |-> "none",
     reply |-> "ok", n |-> 0, hasSymbols |-> FALSE, symbols |-> <<>>, replies |-> <<>>,
     market |-> "ok", technical |-> "series", keyPresent |-> TRUE,
     ai |-> [kind |-> "httpError", price |-> 0, confidence |-> 0]]

Methods == {"OPTIONS", "POST"}

Bodies == {"json", "badJson"}

StockDataRequests ==
    LET base == {Request("stockData", m, b) : m \in Methods, b \in Bodies}
    IN  {[r EXCEPT !.action = "quote", !.reply = q] : r \in base, q \in EdgeReplies}
        \cup {[r EXCEPT !.action = "historical", !.reply = q] : r \in base, q \in ChartFailures}
        \cup {[r EXCEPT !.action = "historical", !.reply = "series", !.n = k] :
                  r \in base, k \in {0, 2}}
        \cup {[r EXCEPT !.action = "overview"] : r \in base}
        \cup {[r EXCEPT !.action = "overview", !.hasSymbols = TRUE,
                        !.symbols = <<"AAPL", "ZZZZ">>, !.replies = rs] :
                  r \in base, rs \in SeqsOfLen({"ok", "httpError"}, 2)}
        \cup {[r EXCEPT !.action = "other"] : r \in base}

PredictionRequests ==
    {[Request(sv, m, b) EXCEPT !.market = mk, !.technical = t, !.keyPresent = k, !.ai = a] :
        sv \in {"prediction", "predictionWithFallback"}, m \in Methods, b \in Bodies,
        mk \in {"ok", "httpError"}, t \in {"series", "httpError"}, k \in BOOLEAN,
        a \in {o \in AiOutcomes : o.kind # "network"}}

\* serve of stock-data: the action's data, or the catch's response for a
\* body that is no JSON, a throw of the action's fetch, symbols.map on a
\* missing symbols, or an action that is none of the three
serveStockData(req) ==
    IF req.method = "OPTIONS" THEN OptionsResponse
    ELSE IF req.body = "badJson" THEN ErrorResponse
    ELSE CASE req.action = "quote" ->
                IF fetchStockQuote("AAPL", req.reply).threw THEN ErrorResponse
                ELSE DataResponse(0)
           [] req.action = "historical" ->
                IF fetchHistoricalData("AAPL", req.reply, req.n).source = "threw"
                THEN ErrorResponse
                ELSE DataResponse(0)
           [] req.action = "overview" ->
                \* fetchMarketOverview catches every fetchStockQuote's throw
                IF ~req.hasSymbols THEN ErrorResponse ELSE DataResponse(0)
           [] OTHER -> ErrorResponse

\* getMarketData: a throw when the quote cannot be had
getMarketData(reply) == [threw |-> reply # "ok"]

\* serve of gemini-stock-prediction (and its copy at stock-data/index.ts
\* 388-430): any throw on the way ends in the catch
servePrediction(req) ==
    IF req.method = "OPTIONS" THEN OptionsResponse
    ELSE IF req.body = "badJson" THEN ErrorResponse
    ELSE IF getMarketData(req.market).threw THEN ErrorResponse
    ELSE IF getTechnicalIndicators(req.technical, <<100>>).threw THEN ErrorResponse
    ELSE IF ~req.keyPresent THEN ErrorResponse
    ELSE LET r == serveGemini(req.ai)
         IN  IF r.status = 200 THEN DataResponse(r.confidence) ELSE ErrorResponse

\* callGeminiForAnalysis of the copy at stock-data/index.ts 277-367: its
\* catch returns a prediction from the day's change, confidence 70
callGeminiForAnalysisWithFallback(outcome) ==
    IF outcome.kind = "json"
    THEN [threw |-> FALSE, confidence |-> outcome.confidence]
    ELSE [threw |-> FALSE, confidence |-> 70]

\* serve of the copy at stock-data/index.ts 160-202: getMarketData and
\* getTechnicalIndicators of this copy return made-up data instead of
\* throwing, and so does its callGeminiForAnalysis
servePredictionWithFallback(req) ==
    IF req.method = "OPTIONS" THEN OptionsResponse
    ELSE IF req.body = "badJson" THEN ErrorResponse
    ELSE IF ~req.keyPresent THEN ErrorResponse
    ELSE LET r == callGeminiForAnalysisWithFallback(req.ai)
         IN  IF r.threw THEN ErrorResponse ELSE DataResponse(r.confidence)

serve(req) ==
    CASE req.service = "stockData" -> serveStockData(req)
      [] req.service = "prediction" -> servePrediction(req)
      [] req.service = "predictionWithFallback" -> servePredictionWithFallback(req)

InitEdge ==
    /\ PagesOff
    /\ fb = FbIdle
    /\ ft = FtIdle
    /\ HookOff
    /\ \/ \E text \in Texts : fn = FnCall("extractJson", text)
       \/ \E r \in IndicatorFailures :
             fn = FnCall("indicators", [reply |-> r, closes |-> <<>>])
       \/ \E c \in CloseSeries :
             fn = FnCall("indicators", [reply |-> "series", closes |-> c])
       \/ \E req \in StockDataRequests \cup PredictionRequests : fn = FnCall("serve", req)

ExtractJsonCall ==
    /\ fn.pc = "call" /\ fn.op = "extractJson"
    /\ fn' = [fn EXCEPT !.pc = "done", !.out = ExtractJson(fn.arg)]
    /\ UNCHANGED <<pageVars, fb, hookVars, ft>>

IndicatorsCall ==
    /\ fn.pc = "call" /\ fn.op = "indicators"
    /\ fn' = [fn EXCEPT !.pc = "done",
                        !.out = getTechnicalIndicators(fn.arg.reply, fn.arg.closes)]
    /\ UNCHANGED <<pageVars, fb, hookVars, ft>>

ServeCall ==
    /\ fn.pc = "call" /\ fn.op = "serve"
    /\ fn' = [fn EXCEPT !.pc = "done", !.out = serve(fn.arg)]
    /\ UNCHANGED <<pageVars, fb, hookVars, ft>>

NextEdge == ExtractJsonCall \/ IndicatorsCall \/ ServeCall

SpecEdge == InitEdge /\ [][NextEdge]_vars

(***************************************************************************)
(* The Compare page: addStock, removeStock and the mount effect            *)
(*                                                                         *)
(* A call of addStock runs with the newSymbol and stocks of the render     *)
(* that created it.  An entry of the list is represented by its symbol.    *)
(***************************************************************************)
\* how many addStock calls the user starts in the model
MaxAddCalls == 6

\* what the symbol box can hold: onChange stores e.target.value.toUpperCase()
TypedSymbols == {"", "AAPL", "GOOGL", "TSLA"}

\* const defaultSymbols = ['AAPL', 'GOOGL']
DefaultSymbols == <<"AAPL", "GOOGL">>

\* if (stocks.length >= 5)
MaxStocks == 5

\* the state of the first render: useState('') and useState([])
FirstRender == [newSymbol |-> "", stocks |-> <<>>]

\* the render a user event finds
CurrentRender == [newSymbol |-> newSymbol, stocks |-> stocks]

Listed(list, symbol) == \E i \in 1..Len(list) : list[i] = symbol

\* the three early returns of addStock, read from the render that created it
addStockChecks(render) ==
    IF render.newSymbol = "" THEN "Please enter a stock symbol"
    ELSE IF Len(render.stocks) >= MaxStocks THEN "Maximum 5 stocks can be compared"
    ELSE IF Listed(render.stocks, ToUpperCase(render.newSymbol)) THEN "Stock already added"
    ELSE "go"

\* prev.filter(s => s.symbol !== symbol)
FilterOut(list, symbol) ==
    SelectSeq2(list, [i \in 1..Len(list) |-> list[i] # symbol])

\* the loop of loadDefaults after its i-th addStock has returned:
\* setNewSymbol(next) and the 100 ms wait, or the end
AfterDefault(i, box) ==
    IF i < Len(DefaultSymbols)
    THEN [newSymbol |-> DefaultSymbols[i + 1], mount |-> [pc |-> "wait", i |-> i + 1]]
    ELSE [newSymbol |-> box, mount |-> [pc |-> "done", i |-> i]]

\* the page after its first render and the synchronous part of the mount
\* effect: stocks.length === 0, loadDefaults() has run up to its first wait
InitCompare ==
    /\ fb = FbIdle /\ ft = FtIdle /\ fn = FnIdle
    /\ HookOff
    /\ PredictOff
    /\ newSymbol = DefaultSymbols[1]
    /\ stocks = <<>>
    /\ isLoading = FALSE
    /\ adds = [a \in AddIds |-> IdleAdd]
    /\ mount = [pc |-> "wait", i |-> 1]
    /\ toast = "none"
    /\ addCalls = 0

\* onChange of the symbol box
TypeNewSymbol ==
    /\ \E s \in TypedSymbols : s # newSymbol /\ newSymbol' = s
    /\ UNCHANGED <<stocks, isLoading, adds, mount, toast, addCalls>>
    /\ UNCHANGED <<fb, hookVars, ft, fn, uiVars>>

\* addStock of a render up to its wait: an early return with a toast, or
\* setIsLoading(true) and the one-second wait
BeginAddStock(a, render) ==
    LET check == addStockChecks(render)
    IN  IF check = "go"
        THEN /\ isLoading' = TRUE
             /\ adds' = [adds EXCEPT ![a] = [pc |-> "wait", newSymbol |-> render.newSymbol]]
             /\ UNCHANGED toast
        ELSE /\ toast' = check
             /\ UNCHANGED <<isLoading, adds>>

\* the Enter key in the symbol box: addStock(), whatever isLoading is
PressEnterAdd(a) ==
    /\ a # 0 /\ adds[a].pc = "idle"
    /\ addCalls < MaxAddCalls
    /\ addCalls' = addCalls + 1
    /\ BeginAddStock(a, CurrentRender)
    /\ UNCHANGED <<newSymbol, stocks, mount>>
    /\ UNCHANGED <<fb, hookVars, ft, fn, uiVars>>

\* the Add Stock button: disabled={isLoading || stocks.length >= 5}
ClickAdd(a) ==
    /\ ~isLoading /\ Len(stocks) < MaxStocks
    /\ a # 0 /\ adds[a].pc = "idle"
    /\ addCalls < MaxAddCalls
    /\ addCalls' = addCalls + 1
    /\ BeginAddStock(a, CurrentRender)
    /\ UNCHANGED <<newSymbol, stocks, mount>>
    /\ UNCHANGED <<fb, hookVars, ft, fn, uiVars>>

\* the second of an addStock call has passed: the entry is built from the
\* call's own newSymbol, setStocks(prev => [...prev, stockWithData]),
\* setNewSymbol(''), the toast, finally setIsLoading(false); the call
\* loadDefaults awaits lets its loop go on
AddWakes(a) ==
    /\ adds[a].pc = "wait"
    /\ stocks' = Append(stocks, ToUpperCase(adds[a].newSymbol))
    /\ toast' = "added to comparison"
    /\ isLoading' = FALSE
    /\ adds' = [adds EXCEPT ![a] = IdleAdd]
    /\ IF a = 0
       THEN /\ newSymbol' = AfterDefault(mount.i, "").newSymbol
            /\ mount' = AfterDefault(mount.i, "").mount
       ELSE /\ newSymbol' = ""
            /\ UNCHANGED mount
    /\ UNCHANGED addCalls
    /\ UNCHANGED <<fb, hookVars, ft, fn, uiVars>>

\* the X button of an entry: removeStock(stock.symbol)
removeStock ==
    /\ \E i \in 1..Len(stocks) : stocks' = FilterOut(stocks, stocks[i])
    /\ toast' = "removed from comparison"
    /\ UNCHANGED <<newSymbol, isLoading, adds, mount, addCalls>>
    /\ UNCHANGED <<fb, hookVars, ft, fn, uiVars>>

\* the 100 ms of loadDefaults have passed: await addStock(), the addStock of
\* the first render; when it returns at once the loop goes on in the same turn
MountAddStock ==
    /\ mount.pc = "wait"
    /\ BeginAddStock(0, FirstRender)
    /\ IF addStockChecks(FirstRender) = "go"
       THEN /\ mount' = [mount EXCEPT !.pc = "adding"]
            /\ UNCHANGED newSymbol
       ELSE /\ newSymbol' = AfterDefault(mount.i, newSymbol).newSymbol
            /\ mount' = AfterDefault(mount.i, newSymbol).mount
    /\ UNCHANGED <<stocks, addCalls>>
    /\ UNCHANGED <<fb, hookVars, ft, fn, uiVars>>

NextCompare ==
    \/ TypeNewSymbol
    \/ \E a \in AddIds : PressEnterAdd(a)
    \/ \E a \in AddIds : ClickAdd(a)
    \/ \E a \in AddIds : AddWakes(a)
    \/ removeStock
    \/ MountAddStock

\* a timer that was set fires: the wait of loadDefaults and of addStock end
SpecCompare ==
    /\ InitCompare
    /\ [][NextCompare]_vars
    /\ WF_vars(MountAddStock)
    /\ \A a \in AddIds : WF_vars(AddWakes(a))

(***************************************************************************)
(* The Predict page and the busy flags of the hooks                        *)
(*                                                                         *)
(* A call of handleAnalyze runs with the searchSymbol of the render that   *)
(* created it.  The hooks are represented by their answers: a cached       *)
(* prediction or none, a quote, a prediction or null.  A quote is          *)
(* represented by its symbol.  fetchMarketOverview is called by other      *)
(* pages, each with its own useStockData state.                            *)
(***************************************************************************)
\* how many setTimeout(handleAnalyze, 100) calls are pending at once
MaxTimers == 1

\* how many symbols a fetchMarketOverview call is given
MaxOverview == 2

\* a subset of quickSymbols
QuickSymbols == {"AAPL", "MSFT"}

\* what the search box can hold: onChange stores e.target.value.toUpperCase()
SearchTexts == {""} \cup QuickSymbols

\* a PredictionResult for a symbol, from the cache or from generatePrediction
PagePrediction(symbol) ==
    PredictionResult(symbol, 100, [price |-> 105 * FP, confidence |-> 80], 1)

\* const isLoading = stockLoading || predictionLoading || isAnalyzing
PredictIsLoading == stockLoading \/ loading \/ isAnalyzing

GenerateFinallyOnSuccess(threw) == threw

\* useStockPrediction.loading once generatePrediction has settled:
\* finally { setLoading(false) }
GenerateFinally(threw) == FALSE

\* the page after its first render and the synchronous part of its mount
\* effect: handleAnalyze() of the first render, searchSymbol 'AAPL', has
\* run up to its first await
InitPredict ==
    /\ fb = FbIdle /\ ft = FtIdle /\ fn = FnIdle
    /\ HookOff
    /\ CompareOff
    /\ toast = "none"
    /\ searchSymbol = "AAPL"
    /\ currentStock = Null
    /\ isAnalyzing = TRUE
    /\ stockLoading = FALSE
    /\ analysis = [p \in Runs |->
                     IF p = 1 THEN [IdleAnalysis EXCEPT !.pc = "cache", !.symbol = "AAPL"]
                     ELSE IdleAnalysis]
    /\ timers = <<>>
    /\ overview = OverviewIdle
    /\ analyses = 1

\* what no action of the Predict page or of useStockData touches
PredictFrame ==
    UNCHANGED <<fb, ft, fn, cmpVars, version, store, today, run, error, generated, calls,
                shownFrom, upserts>>

\* onChange of the search box
TypeSearchSymbol ==
    /\ \E s \in SearchTexts : s # searchSymbol /\ searchSymbol' = s
    /\ UNCHANGED <<currentStock, isAnalyzing, stockLoading, analysis, timers, overview,
                   analyses, prediction, loading, toast>>
    /\ PredictFrame

\* handleAnalyze of a render up to its first await: the early return with
\* a toast, or setIsAnalyzing(true) and getCachedPrediction(S.toUpperCase())
BeginAnalyze(p, symbolOfRender) ==
    IF symbolOfRender = ""
    THEN /\ toast' = "Please enter a stock symbol"
         /\ UNCHANGED <<isAnalyzing, analysis>>
    ELSE /\ isAnalyzing' = TRUE
         /\ analysis' = [analysis EXCEPT ![p] =
                [IdleAnalysis EXCEPT !.pc = "cache", !.symbol = ToUpperCase(symbolOfRender)]]
         /\ UNCHANGED toast

\* the Enter key in the search box: handleAnalyze(), whatever isLoading is
PressEnterAnalyze(p) ==
    /\ analysis[p].pc = "idle"
    /\ analyses < MaxCalls
    /\ analyses' = analyses + 1
    /\ BeginAnalyze(p, searchSymbol)
    /\ UNCHANGED <<searchSymbol, currentStock, stockLoading, timers, overview, prediction,
                   loading>>
    /\ PredictFrame

\* the Analyze button: disabled={isLoading}
ClickAnalyze(p) ==
    /\ ~PredictIsLoading
    /\ analysis[p].pc = "idle"
    /\ analyses < MaxCalls
    /\ analyses' = analyses + 1
    /\ BeginAnalyze(p, searchSymbol)
    /\ UNCHANGED <<searchSymbol, currentStock, stockLoading, timers, overview, prediction,
                   loading>>
    /\ PredictFrame

\* a quick-access button: setSearchSymbol(symbol) and
\* setTimeout(handleAnalyze, 100), handleAnalyze being that of the render
\* the button belongs to; clicked is history: the symbol of the button
QuickAccessClick ==
    /\ Len(timers) < MaxTimers
    /\ analyses + Len(timers) < MaxCalls
    /\ \E symbol \in QuickSymbols :
          /\ searchSymbol' = symbol
          /\ timers' = Append(timers, [handler |-> searchSymbol, clicked |-> symbol])
    /\ UNCHANGED <<currentStock, isAnalyzing, stockLoading, analysis, overview, analyses,
                   prediction, loading, toast>>
    /\ PredictFrame

\* the 100 ms have passed: the handleAnalyze handed to setTimeout runs
TimerFires(p) ==
    /\ timers # <<>>
    /\ analysis[p].pc = "idle"
    /\ analyses' = analyses + 1
    /\ timers' = Tail(timers)
    /\ BeginAnalyze(p, Head(timers).handler)
    /\ UNCHANGED <<searchSymbol, currentStock, stockLoading, overview, prediction, loading>>
    /\ PredictFrame

\* getCachedPrediction has answered; fetchStockPrice is called: setLoading(true)
CacheAnswered(p) ==
    /\ analysis[p].pc = "cache"
    /\ \E cached \in {Null, PagePrediction(analysis[p].symbol)} :
          analysis' = [analysis EXCEPT ![p].pc = "price", ![p].cached = cached]
    /\ stockLoading' = TRUE
    /\ UNCHANGED <<searchSymbol, currentStock, isAnalyzing, timers, overview, analyses,
                   prediction, loading, toast>>
    /\ PredictFrame

\* fetchStockPrice has settled: finally setLoading(false); handleAnalyze
\* goes on in the same turn and calls fetchStockChart: setLoading(true)
PriceAnswered(p) ==
    /\ analysis[p].pc = "price"
    /\ analysis' = [analysis EXCEPT ![p].pc = "chart"]
    /\ stockLoading' = TRUE
    /\ UNCHANGED <<searchSymbol, currentStock, isAnalyzing, timers, overview, analyses,
                   prediction, loading, toast>>
    /\ PredictFrame

\* fetchStockChart has settled: finally setLoading(false); handleAnalyze
\* goes on: setCurrentStock(stockData), then the cached prediction is shown
\* and the run ends, or generatePrediction is called: setLoading(true)
ChartAnswered(p) ==
    /\ analysis[p].pc = "chart"
    /\ stockLoading' = FALSE
    /\ \E reply \in {"ok", "networkError"} :
          currentStock' = [symbol |-> fetchStockPrice(analysis[p].symbol, reply, 0).symbol]
    /\ IF MustGenerate(analysis[p].cached)
       THEN /\ loading' = TRUE
            /\ analysis' = [analysis EXCEPT ![p].pc = "generate"]
            /\ UNCHANGED <<prediction, toast, isAnalyzing>>
       ELSE /\ prediction' = analysis[p].cached
            /\ toast' = "Analysis complete"
            /\ isAnalyzing' = FALSE
            /\ analysis' = [analysis EXCEPT ![p] = IdleAnalysis]
            /\ UNCHANGED loading
    /\ UNCHANGED <<searchSymbol, timers, overview, analyses>>
    /\ PredictFrame

\* generatePrediction has settled, with a result or with null after its
\* catch; setPrediction(predictionResult), the toast, finally
\* setIsAnalyzing(false)
GenerateAnswered(p) ==
    /\ analysis[p].pc = "generate"
    /\ \E threw \in BOOLEAN :
          /\ loading' = GenerateFinally(threw)
          /\ prediction' = IF threw THEN Null ELSE PagePrediction(analysis[p].symbol)
    /\ toast' = "Analysis complete"
    /\ isAnalyzing' = FALSE
    /\ analysis' = [analysis EXCEPT ![p] = IdleAnalysis]
    /\ UNCHANGED <<searchSymbol, currentStock, stockLoading, timers, overview, analyses>>
    /\ PredictFrame

\* fetchMarketOverview(symbols) of a page that calls it (Home, Insights):
\* setLoading(true), then one fetchStockPrice per symbol, each with its own
\* setLoading(true); with no symbol Promise.allSettled resolves at once and
\* finally setLoading(false) runs
OverviewStart ==
    /\ overview.left = 0
    /\ analyses < MaxCalls
    /\ analyses' = analyses + 1
    /\ \E n \in 0..MaxOverview : overview' = [left |-> n, loading |-> (n > 0)]
    /\ UNCHANGED <<searchSymbol, currentStock, isAnalyzing, stockLoading, analysis, timers,
                   prediction, loading, toast>>
    /\ PredictFrame

\* one fetchStockPrice of the overview has settled: finally
\* setLoading(false); after the last one Promise.allSettled resolves and
\* fetchMarketOverview's own finally runs setLoading(false) too
OverviewPriceAnswered ==
    /\ overview.left > 0
    /\ overview' = [left |-> overview.left - 1, loading |-> FALSE]
    /\ UNCHANGED <<searchSymbol, currentStock, isAnalyzing, stockLoading, analysis, timers,
                   analyses, prediction, loading, toast>>
    /\ PredictFrame

\* the Predict page
NextPredict ==
    \/ TypeSearchSymbol
    \/ \E p \in Runs : PressEnterAnalyze(p)
    \/ \E p \in Runs : ClickAnalyze(p)
    \/ QuickAccessClick
    \/ \E p \in Runs : TimerFires(p)
    \/ \E p \in Runs : CacheAnswered(p)
    \/ \E p \in Runs : PriceAnswered(p)
    \/ \E p \in Runs : ChartAnswered(p)
    \/ \E p \in Runs : GenerateAnswered(p)

SpecPredict == InitPredict /\ [][NextPredict]_vars

\* the operations that set a busy flag: handleAnalyze runs started from the
\* search box, with their hook calls, and the fetchMarketOverview calls of
\* another page
NextBusy ==
    \/ TypeSearchSymbol
    \/ \E p \in Runs : PressEnterAnalyze(p)
    \/ \E p \in Runs : ClickAnalyze(p)
    \/ \E p \in Runs : CacheAnswered(p)
    \/ \E p \in Runs : PriceAnswered(p)
    \/ \E p \in Runs : ChartAnswered(p)
    \/ \E p \in Runs : GenerateAnswered(p)
    \/ OverviewStart
    \/ OverviewPriceAnswered

\* a network answer to a handleAnalyze run or to a fetchStockPrice of the
\* overview
Delivery ==
    \/ \E p \in Runs : CacheAnswered(p) \/ PriceAnswered(p) \/ ChartAnswered(p)
                             \/ GenerateAnswered(p)
    \/ OverviewPriceAnswered

\* while network calls are pending, one of them settles
SpecBusy ==
    /\ InitPredict
    /\ [][NextBusy]_vars
    /\ WF_vars(Delivery)

(***************************************************************************)
(* Properties of the fallback                                              *)
(***************************************************************************)
FallbackDone == fb.pc = "done"

LongHistory == Len(fb.historicalData) >= 5

\* the population standard deviation of the log returns, stated on its own
PopulationVolatility(h) ==
    LET r == [i \in 1..(Len(h) - 1) |-> Ln(h[i + 1]) - Ln(h[i])]
        n == Len(r)
        m == SumSeq(r) \div n
        v == SumSeq([i \in 1..n |-> (r[i] - m) * (r[i] - m)]) \div n
    IN  Sqrt(v)

\* C6: for a history of at least 5 positive prices and a positive current
\* price, the fallback's confidence is an integer between 50 and 95.
C6_FallbackConfidenceRange ==
    (FallbackDone /\ LongHistory) =>
        (fb.out.confidence \in 50..95)

\* the lower clamp at 50 is what decides the confidence
C6_Witness ==
    /\ FallbackDone /\ LongHistory
    /\ 75 * 100 - PopulationVolatility(fb.historicalData) < 50 * 100
    /\ fb.out.confidence = 50

\* C7: for a history of at least 5 positive prices, the predicted price is
\* within maxChange = min(0.05, 2 x volatility) of currentPrice, relatively,
\* volatility being the population standard deviation of the log returns;
\* so the move never exceeds 5% of currentPrice.
C7_FallbackMoveBounded ==
    (FallbackDone /\ LongHistory) =>
        LET move == Abs(fb.out.price - fb.currentPrice * FP)
        IN  /\ move <= fb.currentPrice * 2 * PopulationVolatility(fb.historicalData)
            /\ move * 100 <= fb.currentPrice * FP * 5

\* the volatility-scaled bound, below 5%, cuts a larger downward factor
C7_Witness ==
    /\ FallbackDone /\ LongHistory
    /\ 2 * PopulationVolatility(fb.historicalData) < (5 * FP) \div 100
    /\ 2 * PopulationVolatility(fb.historicalData) > 0
    /\ RawFactor(fb.currentPrice, fb.historicalData)
          < 0 - 2 * PopulationVolatility(fb.historicalData)
    /\ fb.currentPrice * FP - fb.out.price
          = fb.currentPrice * 2 * PopulationVolatility(fb.historicalData)

\* C8: for a history shorter than 5 (the empty one too) the confidence is
\* exactly 65, the predicted price is within 1% of currentPrice, and the
\* result is one the empty history gives: no element of the history counts.
C8_ShortHistoryConservative ==
    (FallbackDone /\ ~LongHistory) =>
        /\ fb.out.confidence = 65
        /\ Abs(fb.out.price - fb.currentPrice * FP) * 100 <= fb.currentPrice * FP
        /\ \E rnd \in RandomSamples :
              fb.out = calculateAdvancedPrediction(fb.currentPrice, <<>>, rnd)

C8_Witness ==
    /\ FallbackDone
    /\ Len(fb.historicalData) = 4
    /\ fb.historicalData[1] # fb.historicalData[4]
    /\ fb.out.confidence = 65
    /\ fb.out.price # fb.currentPrice * FP

(***************************************************************************)
(* Properties of the prediction cache and the hook                         *)
(***************************************************************************)
\* C1: after any sequence and interleaving of generatePrediction calls the
\* table holds at most one row per (upper-cased symbol, prediction_date).
C1_OneRowPerSymbolAndDate ==
    \A r1 \in store, r2 \in store :
        (ToUpperCase(r1.symbol) = ToUpperCase(r2.symbol)
            /\ r1.prediction_date = r2.prediction_date) => r1 = r2

\* two upserts were applied and the second replaced the row of the first
C1_Witness ==
    /\ upserts >= 2
    /\ Cardinality(store) = 1
    /\ \A p \in Runs : run[p].pc = "idle"

\* C2: what generatePrediction last returned for (S, D), the store having
\* answered its upsert, is what getCachedPrediction(S) returns on date D:
\* the same symbol, currentPrice, predictedPrice, confidence and date; a
\* second generatePrediction for the key replaces what the first wrote.
C2_CacheRoundTrip ==
    \A g \in generated :
        g.predictionDate = today => getCachedPrediction(store, g.symbol, today, TRUE) = g

\* C9: every prediction generatePrediction is about to return, and every row
\* of the table, has a confidence between 50 and 95.
C9_ConfidenceRange ==
    /\ \A p \in Runs : run[p].pc = "upsert" => run[p].result.confidence \in 50..95
    /\ \A r \in store : ParseFloatCell(r.confidence) \in 50..95

\* the prediction of the deterministic fallback for a call's inputs
IsFallbackOf(result, r) ==
    \E rnd \in HookRandom :
        LET f == calculateAdvancedPrediction(r.currentPrice, r.historicalData, rnd)
        IN  /\ result.predictedPrice = f.price
            /\ result.confidence = f.confidence
            /\ result.currentPrice = r.currentPrice

\* C10: when the AI strategy fails (the invocation fails, the upstream call
\* is not ok, or the text holds no JSON object) generatePrediction goes on
\* with a non-null prediction, that of the deterministic fallback for the
\* same currentPrice and history, and the hook's error stays null.
C10_AiFailureFallsBack ==
    /\ [](version = "gemini" => error = Null)
    /\ [](\A p \in Runs :
            (run[p].pc = "upsert" /\ run[p].aiFailed) =>
                (run[p].result # Null /\ IsFallbackOf(run[p].result, run[p])))
    /\ [][\A p \in Runs :
            (run[p].pc = "ai" /\ run'[p] # run[p]) =>
                (run'[p].pc = "upsert" /\ run'[p].result # Null)]_vars

\* a call whose AI strategy failed holds the fallback's prediction for its
\* volatile history: confidence 50, from 75 less the volatility
C10_Witness ==
    \E p \in Runs :
        /\ run[p].pc = "upsert" /\ run[p].aiFailed
        /\ Len(run[p].historicalData) >= 5
        /\ run[p].result.confidence = 50
        /\ error = Null

\* C3: a handleAnalyze run that got a cached prediction shows it, calls no
\* generatePrediction and leaves the table as it is; a run is in
\* generatePrediction only after a cache miss.
C3_CachedPredictionReused ==
    /\ [](\A p \in Runs :
            (run[p].kind = "analyze" /\ run[p].pc \in {"ai", "upsert"}) =>
                run[p].cached = Null)
    /\ [][\A p \in Runs :
            (run[p].pc = "fetch" /\ run[p].cached # Null /\ run'[p] # run[p]) =>
                (run'[p].pc = "idle" /\ prediction' = run[p].cached /\ store' = store
                    /\ upserts' = upserts)]_vars

\* the prediction on display came from the cache and is the stored one
C3_Witness ==
    /\ shownFrom = "cache"
    /\ prediction # Null
    /\ prediction.predictionDate = today
    /\ getCachedPrediction(store, prediction.symbol, today, TRUE) = prediction
    /\ \A p \in Runs : run[p].pc = "idle"

(***************************************************************************)
(* Properties of the data layer                                            *)
(***************************************************************************)
FetchDone(op) == ft.pc = "done" /\ ft.op = op

\* the symbols whose upstream fetch succeeded, in the order asked
SucceededSymbols == SelectSeq2(ft.symbols, [i \in 1..Len(ft.symbols) |-> ft.replies[i] = "ok"])

\* C4 as stated: either fetchMarketOverview returns exactly the quotes of
\* the symbols whose upstream fetch succeeded; a failed symbol is dropped.
C4_OverviewDropsFailures ==
    (FetchDone("overview") \/ FetchDone("edgeOverview")) =>
        ft.out = [i \in 1..Len(SucceededSymbols) |-> LiveQuote(SucceededSymbols[i])]

\* C4 amended: the edge function's overview returns exactly the quotes of
\* the symbols whose fetch succeeded; the hook's overview returns one quote
\* per symbol asked, live where the fetch succeeded and simulated where it
\*\* failed.
C4_OverviewPartialFailure ==
    /\ FetchDone("edgeOverview") =>
          ft.out = [i \in 1..Len(SucceededSymbols) |-> LiveQuote(SucceededSymbols[i])]
    /\ FetchDone("overview") =>
          /\ Len(ft.out) = Len(ft.symbols)
          /\ \A i \in 1..Len(ft.symbols) :
                /\ ft.out[i].symbol = ft.symbols[i]
                /\ ft.out[i].source = (IF ft.replies[i] = "ok" THEN "live" ELSE "simulated")

\* the hook's overview of [AAPL, ZZZZ] with ZZZZ failing upstream
C4_Witness ==
    /\ FetchDone("overview")
    /\ ft.symbols = <<"AAPL", "ZZZZ">>
    /\ ft.replies[1] = "ok" /\ ft.replies[2] = "httpError"
    /\ Len(ft.out) = 2
    /\ ft.out[1] = LiveQuote("AAPL")
    /\ ft.out[2].symbol = "ZZZZ" /\ ft.out[2].source = "simulated"

\* C5: fetchStockPrice and fetchStockChart return neither null nor an empty
\* result, and after a failure (a thrown fetch, a status that is not ok, a
\* malformed payload, an 'Error Message' or 'Note' payload) simulated data.
C5_NeverEmptySimulatedOnFailure ==
    /\ FetchDone("price") =>
          /\ ft.out # Null
          /\ ft.replies[1] # "ok" => ft.out.source = "simulated"
    /\ FetchDone("chart") =>
          /\ ft.out # Null
          /\ ft.out.points # <<>>
          /\ ft.replies[1] # "series" => ft.out.source = "simulated"

\* C11: history retrieval returns at most 30 points, oldest first (the
\* timestamps never decrease), on the live path of the hook and of the edge
\* function, given a payload listed newest first, and on the simulated path.
C11_HistoryAtMost30Ascending ==
    (FetchDone("chart") \/ FetchDone("edgeHistory")) =>
        /\ Len(ft.out.points) <= 30
        /\ \A i \in 1..Len(ft.out.points), j \in 1..Len(ft.out.points) :
              i < j => ft.out.points[i].timestamp <= ft.out.points[j].timestamp

\* a payload of 31 days, newest first, came back as its 30 newest, oldest first
C11_Witness ==
    /\ FetchDone("chart")
    /\ ft.replies[1] = "series" /\ ft.n = 31
    /\ ft.out.source = "live"
    /\ Len(ft.out.points) = 30
    /\ ft.out.points[30] = PayloadSeries(31)[1]
    /\ ft.out.points[1] = PayloadSeries(31)[30]
    /\ ft.out.points[1].timestamp < ft.out.points[30].timestamp

\* C12: two calls of the fallback with the same currentPrice and the same
\* history of length >= 5 return the same price and the same confidence:
\* whatever Math.random() would draw, the result is the one returned.
C12_FallbackDeterministic ==
    (FallbackDone /\ LongHistory) =>
        \A rnd \in RandomSamples :
            calculateAdvancedPrediction(fb.currentPrice, fb.historicalData, rnd) = fb.out

\* a call on a long history returned, while on a short one with the same
\* current price the draws do give different results
C12_Witness ==
    /\ FallbackDone /\ LongHistory
    /\ fb.out.confidence # 65
    /\ \E r1 \in RandomSamples, r2 \in RandomSamples :
          calculateAdvancedPrediction(fb.currentPrice, SubSeq(fb.historicalData, 1, 4), r1)
              # calculateAdvancedPrediction(fb.currentPrice, SubSeq(fb.historicalData, 1, 4), r2)

\* C19: for history = [100, ..., 109] and currentPrice = 110 the fallback
\* has shortMA = 107 and longMA = 104.5, takes the bullish branch (factor
\* +0.01, confidence 75 before the volatility), and its final factor is
\* within maxChange = min(0.05, 2 x volatility): the predicted price is
\* above 110 and at most 110 x (1 + maxChange).
C19_WorkedExample ==
    (FallbackDone /\ fb.historicalData = ExampleHistory /\ fb.currentPrice = 110) =>
        LET short_ma == calculateMovingAverage(SliceLast(ExampleHistory, 5), 5)
            long_ma == calculateMovingAverage(SliceLast(ExampleHistory, 10), 10)
            maxChange == MaxChange(PopulationVolatility(ExampleHistory))
        IN  /\ short_ma.sum = 107 * short_ma.n
            /\ 2 * long_ma.sum = 209 * long_ma.n
            /\ Crossover(ExampleHistory) = FP \div 100
            /\ BaseConfidence(ExampleHistory) = 75
            /\ fb.out.price > 110 * FP
            /\ fb.out.price <= 110 * (FP + maxChange)

\* the example's factor, about 0.029 before the clamp, is cut to maxChange
C19_Witness ==
    /\ FallbackDone /\ fb.historicalData = ExampleHistory /\ fb.currentPrice = 110
    /\ MaxChange(PopulationVolatility(ExampleHistory)) > 0
    /\ RawFactor(110, ExampleHistory) > MaxChange(PopulationVolatility(ExampleHistory))
    /\ fb.out.price = 110 * (FP + MaxChange(PopulationVolatility(ExampleHistory)))

\* a window the slope is taken on has 5 to 10 points, so n >= 2 and the
\* denominator n * sum(x^2) - (sum x)^2 is positive
SlopeDefinedOn(w) == Len(w) \in 5..10 /\ TrendDenominator(Len(w)) > 0

\* C20: the regression slope is never taken on fewer than 2 points: every
\* call of calculateLinearTrend from calculateAdvancedPrediction and of
\* calculateTrend from stockUtils.generatePrediction gets 5 to 10 points,
\* so its denominator is strictly positive.
C20_SlopeWindowGuarded ==
    /\ FallbackDone => \A w \in TrendCalls(fb.historicalData) : SlopeDefinedOn(w)
    /\ (fn.pc = "done" /\ fn.op = "utilsPrediction") =>
            \A w \in fn.out.trendWindows : SlopeDefinedOn(w)

\* a history of twelve prices: the slope was taken on its last ten
C20_Witness ==
    /\ fn.pc = "done" /\ fn.op = "utilsPrediction"
    /\ fn.arg = LongerHistory
    /\ fn.out.trendWindows = {ExampleHistory}
    /\ TrendCalls(LongerHistory) = {ExampleHistory}
    /\ TrendDenominator(Len(ExampleHistory)) = 825
    /\ Len(fn.out.predictions) = 5

(***************************************************************************)
(* Properties of the edge functions                                        *)
(***************************************************************************)
FnDone(op) == fn.pc = "done" /\ fn.op = op

\* the index of the brace that closes the one at index open, 0 if none
RECURSIVE ClosingBrace(_, _, _, _)
ClosingBrace(text, open, i, depth) ==
    IF i > Len(text) THEN 0
    ELSE LET d == IF text[i] = "{" THEN depth + 1
                  ELSE IF text[i] = "}" THEN depth - 1 ELSE depth
         IN  IF d = 0 THEN i ELSE ClosingBrace(text, open, i + 1, d)

\* the first balanced {...} substring of a text, <<>> if it has none
FirstBalanced(text) ==
    LET open == IndexOfFirst(text, "{", 1)
        close == IF open = 0 THEN 0 ELSE ClosingBrace(text, open, open, 0)
    IN  IF close = 0 THEN <<>> ELSE SubSeq(text, open, close)

\* some substring of the text is a JSON object
HoldsJsonObject(text) ==
    \E i \in 1..Len(text), k \in 1..Len(text) : i < k /\ JsonParses(SubSeq(text, i, k))

\* C13: from a text whose first balanced {...} substring is a JSON object,
\* with any text and braces before or after it, that object is what the AI
\* strategy parses; from a text that holds no JSON object it fails with the
\* invalid-response-format error.
C13_FirstBalancedObjectParsed ==
    FnDone("extractJson") =>
        /\ JsonParses(FirstBalanced(fn.arg)) =>
              (~fn.out.threw /\ fn.out.parsed = FirstBalanced(fn.arg))
        /\ ~HoldsJsonObject(fn.arg) => fn.out.threw

\* the 14 most recent closes of a series listed newest first
RecentCloses(closes) == [i \in 1..(IF Len(closes) < 14 THEN Len(closes) ELSE 14) |-> closes[i]]

\* C18: the indicator estimator looks at the 14 most recent closes at most;
\* the trend is bullish exactly when the most recent close is strictly above
\* the window's average, bearish otherwise; the RSI proxy is 65 when bullish
\* and 35 when bearish; support is the window's minimum x 0.98, resistance
\* its maximum x 1.02; so support < every close of the window < resistance.
C18_IndicatorEstimator ==
    (FnDone("indicators") /\ ~fn.out.threw) =>
        LET w == RecentCloses(fn.arg.closes)
            bullish == w[1] * Len(w) > SumSeq(w)
        IN  /\ fn.out.trend = (IF bullish THEN "bullish" ELSE "bearish")
            /\ fn.out.rsi = (IF bullish THEN 65 ELSE 35)
            /\ \A i \in 1..Len(w) : fn.out.support <= w[i] * 98
            /\ \E i \in 1..Len(w) : fn.out.support = w[i] * 98
            /\ \A i \in 1..Len(w) : fn.out.resistance >= w[i] * 102
            /\ \E i \in 1..Len(w) : fn.out.resistance = w[i] * 102
            /\ \A i \in 1..Len(w) :
                  fn.out.support < w[i] * 100 /\ w[i] * 100 < fn.out.resistance

\* sixteen closes: the 15th and 16th, below and above all of the window,
\* change nothing; the latest close is above the average
C18_Witness ==
    /\ FnDone("indicators") /\ ~fn.out.threw
    /\ Len(fn.arg.closes) = 16
    /\ fn.arg.closes[1] = 110 /\ fn.arg.closes[15] = 90 /\ fn.arg.closes[16] = 110
    /\ fn.out.trend = "bullish" /\ fn.out.rsi = 65
    /\ fn.out.support = 100 * 98
    /\ fn.out.resistance = 110 * 102

\* the request's body is unreadable, its action unknown, or a call it
\* depends on fails (an overview tolerates the failure of a symbol)
RequestFails(req) ==
    \/ req.body = "badJson"
    \/ /\ req.service = "stockData"
       /\ \/ req.action = "other"
          \/ req.action = "quote" /\ req.reply # "ok"
          \/ req.action = "historical" /\ ~(req.reply = "series" /\ req.n > 0)
          \/ req.action = "overview" /\ ~req.hasSymbols
    \/ /\ req.service \in {"prediction", "predictionWithFallback"}
       /\ \/ req.market # "ok"
          \/ req.technical # "series"
          \/ ~req.keyPresent
          \/ req.ai.kind # "json"

UpsertApplied(p) ==
    run[p].pc = "upsert" /\ run'[p].pc = "idle" /\ upserts' = upserts + 1

\* C15: without locking, when generatePrediction calls for the same symbol
\* and date interleave, each applied upsert leaves exactly one row for its
\* (symbol, date), the writer's row in full, never a mixture of fields, and
\* touches no other row; no other step changes the table.
C15_LastWriterWins ==
    [][/\ \A p \in Runs :
            UpsertApplied(p) =>
                /\ {r \in store' : SameKey(r, run[p].row)} = {run[p].row}
                /\ {r \in store' : ~SameKey(r, run[p].row)}
                      = {r \in store : ~SameKey(r, run[p].row)}
       /\ (\A p \in Runs : ~UpsertApplied(p)) => store' = store]_vars

\* the second writer's upsert is in flight against the row of the first:
\* same key, another confidence
C15_Witness ==
    /\ calls = 2 /\ upserts = 1
    /\ run[1].pc = "upsert" /\ run[2].pc = "idle"
    /\ \E r \in store :
          /\ store = {r}
          /\ SameKey(r, run[1].row)
          /\ r.confidence # run[1].row.confidence

\* C16: the date is the only expiry: getCachedPrediction returns a stored
\* prediction only if its prediction_date is the current date, so a row of
\* date D is a hit on D and a miss on every later date; no operation of the
\* hook deletes a row: the stored (symbol, date) keys only grow.
C16_DateRolloverOnlyExpiry ==
    /\ [](\A s \in Symbols :
            LET hit == getCachedPrediction(store, s, today, TRUE)
            IN  hit # Null =>
                  /\ hit.predictionDate = today
                  /\ \E r \in store : r.symbol = hit.symbol /\ r.prediction_date = today)
    /\ [](\A r \in store :
            IF r.prediction_date = today
            THEN getCachedPrediction(store, r.symbol, today, TRUE) # Null
            ELSE (\A r2 \in store : ~(r2.symbol = r.symbol /\ r2.prediction_date = today))
                    => getCachedPrediction(store, r.symbol, today, TRUE) = Null)
    /\ [][\A r \in store : \E r2 \in store' : SameKey(r, r2)]_vars

\* a row of an earlier date is still stored and is a miss today
C16_Witness ==
    /\ today = 2
    /\ \E r \in store :
          /\ store = {r}
          /\ r.prediction_date = 1
          /\ getCachedPrediction(store, r.symbol, 1, TRUE) # Null
          /\ getCachedPrediction(store, r.symbol, today, TRUE) = Null

\* C17: symbols are normalized to upper case in the cache: every row sent
\* or stored has an upper-case symbol, and a prediction written for a
\* symbol in any letter case is what getCachedPrediction finds for the
\* symbol in any other letter case on the row's date.
C17_SymbolsUpperCased ==
    /\ [](\A r \in store : r.symbol = ToUpperCase(r.symbol))
    /\ [](\A p \in Runs :
            run[p].pc = "upsert" => run[p].row.symbol = ToUpperCase(run[p].symbol))
    /\ [][\A p \in Runs :
            UpsertApplied(p) =>
                \A s \in Symbols :
                    ToUpperCase(s) = ToUpperCase(run[p].symbol) =>
                        getCachedPrediction(store', s, run[p].row.prediction_date, TRUE)
                            = run[p].result]_vars

\* a call made with "aapl" is about to write while a row "AAPL" is found
\* under either spelling
C17_Witness ==
    \E p \in Runs :
        /\ run[p].pc = "upsert" /\ run[p].symbol = "aapl"
        /\ run[p].row.symbol = "AAPL"
        /\ \E r \in store : r.symbol = "AAPL" /\ r.prediction_date = today
        /\ getCachedPrediction(store, "aapl", today, TRUE) # Null
        /\ getCachedPrediction(store, "aapl", today, TRUE)
              = getCachedPrediction(store, "AAPL", today, TRUE)

(***************************************************************************)
(* Properties of the Compare page                                          *)
(***************************************************************************)
\* C21: the comparison list never holds more than 5 stocks, after any
\* sequence of addStock and removeStock calls, addStock calls started while
\* another is still waiting included.
C21_AtMostFiveStocks == Len(stocks) <= MaxStocks

\* C22: no two entries of the comparison list share a symbol: an addStock
\* for a symbol that is listed, or that a waiting addStock is about to add,
\* is rejected and leaves the list unchanged.
C22_NoDuplicateSymbols ==
    \A i, j \in 1..Len(stocks) : stocks[i] = stocks[j] => i = j

\* C23: mounting the page with an empty list eventually leaves AAPL and
\* GOOGL in the comparison list, in that order.
C23_DefaultsLoaded == <>(stocks = DefaultSymbols)

(***************************************************************************)
(* Properties of the Predict page and of the busy flags                    *)
(***************************************************************************)
\* a fetchStockPrice or fetchStockChart call of the Predict page is in flight
DataInFlight == \E p \in Runs : analysis[p].pc \in {"price", "chart"}

\* C24: useStockData.loading is true whenever a fetchStockPrice,
\* fetchStockChart or fetchMarketOverview call is in flight, also while
\* fetchMarketOverview's fetchStockPrice calls run together and some of
\* them have completed.
C24_LoadingWhileInFlight ==
    /\ DataInFlight => stockLoading
    /\ overview.left > 0 => overview.loading

NoAnalysisInFlight == \A p \in Runs : analysis[p].pc = "idle"

\* C25: whenever no handleAnalyze run is in flight, the displayed
\* prediction, if any, is for the symbol of the displayed quote, also after
\* two runs for different symbols overlapped.
C25_PredictionMatchesQuote ==
    (NoAnalysisInFlight /\ prediction # Null /\ currentStock # Null)
        => prediction.symbol = currentStock.symbol

\* C26: the analysis a quick-access button starts 100 ms after the click is
\* for the clicked symbol, not for the symbol the search box held when the
\* button was rendered.
C26_QuickAccessAnalyzesClicked ==
    [][(timers # <<>> /\ timers' = Tail(timers))
          => \E p \in Runs :
                /\ analysis[p].pc = "idle"
                /\ analysis'[p].pc = "cache"
                /\ analysis'[p].symbol = Head(timers).clicked]_vars

\* every started handleAnalyze run and overview call has finished
NothingInFlight == NoAnalysisInFlight /\ overview.left = 0

\* C27: every operation returns its busy flag to false, provided every
\* network call settles: isAnalyzing, useStockData.loading and
\* useStockPrediction.loading, once true, are false again later, whether
\* the operation succeeded, fell back or failed, every handleAnalyze run
\* ends, and once all started operations have finished every flag is false.
C27_BusyFlagsReturnToFalse ==
    /\ [](NothingInFlight =>
            (~isAnalyzing /\ ~stockLoading /\ ~loading /\ ~overview.loading))
    /\ isAnalyzing ~> ~isAnalyzing
    /\ stockLoading ~> ~stockLoading
    /\ overview.loading ~> ~overview.loading
    /\ loading ~> ~loading
    /\ \A p \in Runs : (analysis[p].pc # "idle") ~> (analysis[p].pc = "idle")

\* all runs are over and the last generatePrediction returned null
C27_Witness ==
    /\ NothingInFlight
    /\ analyses = MaxCalls
    /\ currentStock # Null /\ prediction = Null
    /\ toast = "Analysis complete"
    /\ ~isAnalyzing /\ ~stockLoading /\ ~loading

(***************************************************************************)
(* Further properties of the fallback                                      *)
(***************************************************************************)
\* C28: for every history of at least 5 positive prices the fallback's
\* confidence is at most 75: either crossover branch brings the base 70 to
\* 75 and the volatility term only subtracts, so the upper clamp at 95
\* never decides and no value in 76..95 is returned.
C28_FallbackConfidenceAtMost75 ==
    (FallbackDone /\ LongHistory) =>
        /\ fb.out.confidence <= 75
        /\ PopulationVolatility(fb.historicalData) >= 0
        /\ fb.out.confidence
              = Max(50, RoundCenti(75 * 100 - PopulationVolatility(fb.historicalData)))

\* a rising history of low, non-zero volatility: the short average is above
\* the long one and the confidence is still 75
C28_Witness ==
    /\ FallbackDone /\ Len(fb.historicalData) = MaxHistLen
    /\ PopulationVolatility(fb.historicalData) > 0
    /\ MAGreater(calculateMovingAverage(SliceLast(fb.historicalData, 5), 5),
                 calculateMovingAverage(SliceLast(fb.historicalData, 10), 10))
    /\ fb.out.confidence = 75

\* every price of the history is the same
FlatHistory == \A i \in 1..Len(fb.historicalData) : fb.historicalData[i] = fb.historicalData[1]

\* C29: for a history of at least 5 prices that are all the same positive
\* value, the fallback returns predictedPrice equal to currentPrice and
\* confidence 75, for every positive currentPrice: zero volatility gives
\* maxChange 0, which clamps the factor to 0 whatever the momentum is.
C29_FlatHistoryKeepsPrice ==
    (FallbackDone /\ LongHistory /\ FlatHistory) =>
        /\ fb.out.price = fb.currentPrice * FP
        /\ fb.out.confidence = 75

\* a flat history below the current price: the momentum is positive and
\* the raw factor is not 0
C29_Witness ==
    /\ FallbackDone /\ LongHistory /\ FlatHistory
    /\ fb.currentPrice > fb.historicalData[1]
    /\ RawFactor(fb.currentPrice, fb.historicalData) > 0
    /\ fb.out.price = fb.currentPrice * FP

====
